---- MODULE Spec2Model ----
(***************************************************************************)
(* A model of clap (src/clap/clap.py): the resolution of the working set   *)
(* of repositories (actual_repos, _parse_requirements, _get_repos), the    *)
(* derivation of the installable packages and the commands that run one    *)
(* git/pip invocation per repository (clone, status, checkout, install,    *)
(* the threaded pull and the composite setup).                             *)
(*                                                                         *)
(* Text is modelled as a sequence of tokens whose concatenation is the     *)
(* Python string: "@", " " and "\n" are tokens of their own, so that       *)
(* strip(), split() and the 'in' substring test are computed, not assumed. *)
(***************************************************************************)
EXTENDS Integers, Sequences, FiniteSets, TLC

VARIABLES
    requirements,   \* the override file: [given, lines], lines of tokens
    actual_repos,   \* the module-level OrderedDict: a sequence of [repo, ref]
    head,           \* the clones under REPO_BASE: repository -> checked-out ref
    broken,         \* repositories on which every git/pip command exits non-zero
    pc,             \* position of the main thread
    frames,         \* setup: the commands still to call when the running one returns
    args,           \* the flags of the running command: [shallow, verbose]
    items,          \* the sequence the running loop iterates over
    idx,            \* number of elements of items the running loop has consumed
    printed,        \* the output stream: a sequence of [tag, line]
    calls,          \* the git/pip commands run so far: [op, repo, ref, shallow]
    threads,        \* pull: the Thread objects, [repo, st, out, left] each
    lastCall,       \* the last call made from the prompt: [op, branch, dev, raised]
    before,         \* actual_repos as it was when lastCall was made
    parsed          \* _parse_requirements has completed at least once

vars == <<requirements, actual_repos, head, broken, pc, frames, args, items, idx,
          printed, calls, threads, lastCall, before, parsed>>

----------------------------------------------------------------------------
(* Bounds of the model *)

\* longest override file, in lines
MaxLines == 2
\* most threads a pull is explored with
MaxThreads == 3
\* the plain dict of _get_repos may be iterated in any order; the model draws
\* the order among the rotations of the list by 0..MaxDictShift places
MaxDictShift == 1

----------------------------------------------------------------------------
(* Program constants *)

MASTER == "master"

CORE_REPOS ==
    << "cloudify-dsl-parser", "cloudify-rest-client", "cloudify-plugins-common",
       "cloudify-diamond-plugin", "cloudify-agent", "cloudify-cli",
       "cloudify-manager", "cloudify-manager-blueprints", "cloudify-premium",
       "cloudify-script-plugin", "cloudify-amqp-influxdb", "docl" >>

DEV_REPOS ==
    << "cloudify-fabric-plugin", "cloudify-system-tests", "cloudify-dev" >>

REPOS == CORE_REPOS \o DEV_REPOS

----------------------------------------------------------------------------
(* Sequences and text *)

Range(s) == { s[i] : i \in 1..Len(s) }

NoDuplicates(s) == \A i, j \in 1..Len(s) : i # j => s[i] # s[j]

\* the subsequence of s whose elements are in S, in the order of s
RECURSIVE Restrict(_, _)
Restrict(s, S) ==
    IF s = <<>> THEN <<>>
    ELSE IF Head(s) \in S THEN <<Head(s)>> \o Restrict(Tail(s), S)
    ELSE Restrict(Tail(s), S)

\* the Python string a token sequence stands for
RECURSIVE Text(_)
Text(ts) == IF ts = <<>> THEN "" ELSE Head(ts) \o Text(Tail(ts))

Whitespace == {" ", "\n"}

RECURSIVE LStrip(_)
LStrip(ts) ==
    IF ts # <<>> /\ Head(ts) \in Whitespace THEN LStrip(Tail(ts)) ELSE ts

RECURSIVE RStrip(_)
RStrip(ts) ==
    IF ts # <<>> /\ ts[Len(ts)] \in Whitespace
    THEN RStrip(SubSeq(ts, 1, Len(ts) - 1)) ELSE ts

\* str.strip()
Strip(ts) == RStrip(LStrip(ts))

\* str.split(sep): the pieces between the occurrences of sep (always >= 1 piece)
RECURSIVE Split(_, _)
Split(ts, sep) ==
    IF ts = <<>> THEN << <<>> >>
    ELSE LET rest == Split(Tail(ts), sep) IN
         IF Head(ts) = sep THEN << <<>> >> \o rest
         ELSE << <<Head(ts)>> \o Head(rest) >> \o Tail(rest)

\* sub in text, for a sub that is one token (the backquotes of the program's
\* messages are written as quotes: a TLA+ string holds no backquote)
Contains(ts, tok) == \E i \in 1..Len(ts) : ts[i] = tok

----------------------------------------------------------------------------
(* The override file *)

\* the lines an override file is made of
Lines ==
    { << "cloudify-cli", "\n" >>,
      << "cloudify-cli", "@", "v2", "\n" >>,
      << "cloudify-manager", "@", "master", "\n" >>,
      << " ", "cloudify-dev", "\n" >>,
      << "not-a-repo", "@", "v2", "\n" >>,
      << "\n" >>,
      << "docl", "@", "v2", "@", "x", "\n" >> }

Sources(max) == UNION { [1..n -> Lines] : n \in 0..max }

NoFile == [given |-> FALSE, lines |-> <<>>]

Files(max) == { [given |-> TRUE, lines |-> src] : src \in Sources(max) }

\* the values of a branch argument
Branches == {"master", "dev", "rel"}

----------------------------------------------------------------------------
(* dict and OrderedDict *)

EmptyDict == [k \in {} |-> ""]

\* d[k] = v on a plain dict
DictSet(d, k, v) == [x \in (DOMAIN d) \cup {k} |-> IF x = k THEN v ELSE d[x]]

Keys(od) == [i \in 1..Len(od) |-> od[i].repo]

\* od[k] = v that adds an entry even when the key is present
ODAppend(od, k, v) == Append(od, [repo |-> k, ref |-> v])

\* od[k] = v on an OrderedDict: a present key keeps its place
ODSet(od, k, v) ==
    IF \E i \in 1..Len(od) : od[i].repo = k
    THEN [i \in 1..Len(od) |-> IF od[i].repo = k THEN [repo |-> k, ref |-> v]
                                ELSE od[i]]
    ELSE Append(od, [repo |-> k, ref |-> v])

\* the orders in which a plain dict built from the list s may be iterated
Rotate(s, k) ==
    IF s = <<>> THEN s
    ELSE LET r == k % Len(s) IN SubSeq(s, r + 1, Len(s)) \o SubSeq(s, 1, r)

DictOrders(s) == { Rotate(s, k) : k \in 0..MaxDictShift }

----------------------------------------------------------------------------
(* _parse_requirements *)

\* lines 108-112: one line of the file; split('@') must give two pieces
parse_line(line, branch) ==
    LET l == Strip(line) IN
    IF Contains(l, "@")
    THEN LET parts == Split(l, "@") IN
         IF Len(parts) = 2
         THEN [ok |-> TRUE, repo |-> Text(parts[1]), ref |-> Text(parts[2])]
         ELSE [ok |-> FALSE, repo |-> "", ref |-> ""]
    ELSE [ok |-> TRUE, repo |-> Text(l), ref |-> branch]

\* lines 105-113: the loop over the lines; err when a line raised ValueError
RECURSIVE repos_dict(_, _, _)
repos_dict(lines, branch, d) ==
    IF lines = <<>> THEN [err |-> FALSE, d |-> d]
    ELSE LET p == parse_line(Head(lines), branch) IN
         IF p.ok THEN repos_dict(Tail(lines), branch, DictSet(d, p.repo, p.ref))
         ELSE [err |-> TRUE, d |-> d]

\* lines 116-118: the loop that writes the dict into actual_repos
RECURSIVE rebuild(_, _, _)
rebuild(od, repos, d) ==
    IF repos = <<>> THEN od
    ELSE rebuild(IF Head(repos) \in DOMAIN d
                 THEN ODSet(od, Head(repos), d[Head(repos)]) ELSE od,
                 Tail(repos), d)

\* actual_repos after _parse_requirements(requirements, branch)
parse_requirements(od, lines, branch) ==
    LET r == repos_dict(lines, branch, EmptyDict) IN
    IF r.err THEN od ELSE rebuild(od, REPOS, r.d)

parse_raises(lines, branch) == repos_dict(lines, branch, EmptyDict).err

----------------------------------------------------------------------------
(* _get_repos *)

\* apply_branch without the test of line 96: every entry is moved
apply_branch_all(od, branch) ==
    IF branch # MASTER
    THEN [i \in 1..Len(od) |-> [repo |-> od[i].repo, ref |-> branch]]
    ELSE od

\* apply_branch without the tests of lines 94 and 96
apply_branch_unconditional(od, branch) ==
    [i \in 1..Len(od) |-> [repo |-> od[i].repo, ref |-> branch]]

\* apply_branch with a loop that stops at the first entry it moves
apply_branch_first(od, branch) ==
    IF branch # MASTER
    THEN [i \in 1..Len(od) |->
            IF od[i].ref = MASTER /\ \A j \in 1..(i - 1) : od[j].ref # MASTER
            THEN [repo |-> od[i].repo, ref |-> branch]
            ELSE od[i]]
    ELSE od

\* lines 94-97: entries at master are moved to a branch that is not master
apply_branch(od, branch) ==
    IF branch # MASTER
    THEN [i \in 1..Len(od) |->
            IF od[i].ref = MASTER THEN [repo |-> od[i].repo, ref |-> branch]
            ELSE od[i]]
    ELSE od

\* repos_list without the dev switch
repos_list_all(dev) == REPOS

\* line 100
repos_list(dev) == IF dev THEN REPOS ELSE CORE_REPOS

\* actual_repos after _get_repos(branch, dev)
get_repos_state(od, branch) == IF od # <<>> THEN apply_branch(od, branch) ELSE od

\* the sequences _get_repos(branch, dev) may yield
get_repos(od, branch, dev) ==
    IF od # <<>> THEN { apply_branch(od, branch) }
    ELSE { [i \in 1..Len(ord) |-> [repo |-> ord[i], ref |-> branch]] :
              ord \in DictOrders(repos_list(dev)) }

----------------------------------------------------------------------------
(* Initial states *)

NoArgs == [shallow |-> FALSE, verbose |-> FALSE]

\* no repository is cloned yet
NoClones == [r \in {} |-> ""]

\* two repositories are cloned, one at master and one at a tag
SomeCloned == [r \in {"cloudify-cli", "cloudify-manager"} |->
                 IF r = "cloudify-cli" THEN MASTER ELSE "v2"]

\* every repository of REPOS is cloned and at master
AllCloned == [r \in Range(REPOS) |-> MASTER]

NoCall == [op |-> "none", branch |-> MASTER, dev |-> TRUE, raised |-> FALSE]

\* a process that has run nothing yet, in a given environment
Start(files, heads, brokens) ==
    /\ requirements \in files
    /\ actual_repos = <<>>
    /\ head \in heads
    /\ broken \in brokens
    /\ pc = "idle"
    /\ frames = <<>>
    /\ args = NoArgs
    /\ items = <<>>
    /\ idx = 0
    /\ printed = <<>>
    /\ calls = <<>>
    /\ threads = <<>>
    /\ lastCall = NoCall
    /\ before = <<>>
    /\ parsed = FALSE

----------------------------------------------------------------------------
(* The resolver called on its own *)

CallParseRequirements(branch) ==
    /\ pc = "idle"
    /\ requirements.given
    /\ actual_repos' = parse_requirements(actual_repos, requirements.lines, branch)
    /\ parsed' = (parsed \/ ~parse_raises(requirements.lines, branch))
    /\ lastCall' = [op |-> "_parse_requirements", branch |-> branch, dev |-> TRUE,
                    raised |-> parse_raises(requirements.lines, branch)]
    /\ before' = actual_repos
    /\ UNCHANGED <<requirements, head, broken, pc, frames, args, items, idx,
                   printed, calls, threads>>

CallGetRepos(branch, dev) ==
    /\ pc = "idle"
    /\ items' \in get_repos(actual_repos, branch, dev)
    /\ actual_repos' = get_repos_state(actual_repos, branch)
    /\ lastCall' = [op |-> "_get_repos", branch |-> branch, dev |-> dev,
                    raised |-> FALSE]
    /\ before' = actual_repos
    /\ UNCHANGED <<requirements, head, broken, pc, frames, args, idx, printed,
                   calls, threads, parsed>>

InitResolve == Start(Files(MaxLines), {NoClones}, {{}})

NextResolve ==
    \/ \E b \in Branches : CallParseRequirements(b)
    \/ \E b \in Branches, dev \in BOOLEAN : CallGetRepos(b, dev)

SpecResolve == InitResolve /\ [][NextResolve]_vars

----------------------------------------------------------------------------
(* Output *)

\* _print_header: a line that carries no repository tag
Header(h) == [tag |-> "", line |-> h]

\* _print(repo, line): one line tagged with the repository
print_line(repo, line) == [tag |-> repo, line |-> Text(line)]

\* _parse_and_print_output: the non-empty lines of output, each tagged
parse_and_print_output(repo, output) ==
    LET ls == SelectSeq(Split(output, "\n"), LAMBDA l : l # <<>>) IN
    [i \in 1..Len(ls) |-> print_line(repo, ls[i])]

\* str(e) of the sh.ErrorReturnCode of a command that wrote stderr
ErrorText(cmd, stderr) ==
    << "\n", "\n", "  RAN: ", cmd, "\n", "\n", "  STDOUT:", "\n", "\n",
       "  STDERR:", "\n" >> \o stderr \o << "\n" >>

----------------------------------------------------------------------------
(* git and pip, as the commands see them *)

\* refs that are tags: checked out, they leave HEAD detached
Tags == {"v2"}

Usable(repo) == repo \in DOMAIN head /\ repo \notin broken

\* git clone <url> <path> --branch <ref>
git_clone(repo, ref) ==
    IF repo \in DOMAIN head
    THEN [ok |-> FALSE,
          out |-> ErrorText("git clone",
                     << "fatal: destination path", " '", repo,
                        "' already exists and is not an empty directory." >>)]
    ELSE IF repo \in broken
    THEN [ok |-> FALSE,
          out |-> ErrorText("git clone",
                     << "fatal: Could not read from remote repository." >>)]
    ELSE [ok |-> TRUE, out |-> <<>>]

\* git symbolic-ref -q --short HEAD
git_symbolic_ref(repo) ==
    IF Usable(repo) /\ head[repo] \notin Tags
    THEN [ok |-> TRUE, out |-> << head[repo], "\n" >>]
    ELSE [ok |-> FALSE, out |-> <<>>]

\* git describe --tags --exact-match
git_describe(repo) ==
    IF Usable(repo) /\ head[repo] \in Tags
    THEN [ok |-> TRUE, out |-> << head[repo], "\n" >>]
    ELSE [ok |-> FALSE, out |-> <<>>]

\* git status -s, on a clean working tree
git_status(repo) == <<>>

\* git checkout <ref>: the ref exists in every usable clone
git_checkout(repo, ref) ==
    IF Usable(repo)
    THEN [ok |-> TRUE,
          out |-> IF ref \in Tags THEN <<>>
                  ELSE << "Your branch is up-to-date with 'origin/", ref, "'.",
                          "\n" >>]
    ELSE [ok |-> FALSE,
          out |-> ErrorText("git checkout",
                     << "error: pathspec '", ref, "' did not match" >>)]

\* pip install -e <path>; path is <repo> or <repo>/<subdir>
pip_install(name, path) ==
    IF Usable(Head(path))
    THEN [ok |-> TRUE,
          out |-> << "Obtaining ", Text(path), "\n",
                     "Successfully installed", " ", name, "\n" >>]
    ELSE [ok |-> FALSE,
          out |-> ErrorText("pip install", << "not installable" >>)]

Call(op, repo, ref) ==
    [op |-> op, repo |-> repo, ref |-> ref, shallow |-> args.shallow]

----------------------------------------------------------------------------
(* _get_cloudify_packages *)

Pop(pkgs, name) == SelectSeq(pkgs, LAMBDA p : p.name # name)

Has(pkgs, name) == \E i \in 1..Len(pkgs) : pkgs[i].name = name

ManagerPackages ==
    << [name |-> "cloudify-rest-service",
        path |-> << "cloudify-manager", "/", "rest-service" >>],
       [name |-> "cloudify-integration-tests",
        path |-> << "cloudify-manager", "/", "tests" >>],
       [name |-> "cloudify-system-workflows",
        path |-> << "cloudify-manager", "/", "workflows" >>] >>

\* every pop but the one of cloudify-dev (line 128)
get_cloudify_packages_keep_dev(repos) ==
    LET all == [i \in 1..Len(repos) |->
                  [name |-> repos[i].repo, path |-> << repos[i].repo >>]]
        rest == Pop(Pop(all, "cloudify-manager"), "cloudify-manager-blueprints")
    IN  IF Has(all, "cloudify-manager") THEN rest \o ManagerPackages ELSE rest

\* lines 122-134, on the sequence that _get_repos() yielded
get_cloudify_packages(repos) ==
    LET all == [i \in 1..Len(repos) |->
                  [name |-> repos[i].repo, path |-> << repos[i].repo >>]]
        rest == Pop(Pop(Pop(all, "cloudify-manager"),
                        "cloudify-manager-blueprints"), "cloudify-dev")
    IN  IF Has(all, "cloudify-manager") THEN rest \o ManagerPackages ELSE rest

----------------------------------------------------------------------------
(* The sequential commands *)

\* a command can be given at the prompt: an override file, if any, is parsed
Ready == pc = "idle" /\ (requirements.given => parsed)

\* the command is called from the prompt, or by setup as its next step
Invoked(name) == Ready \/ pc = name

\* what the prompt records of a call (nothing for a call made by setup)
Recorded(op, branch, dev) ==
    /\ lastCall' = IF pc = "idle"
                   THEN [op |-> op, branch |-> branch, dev |-> dev, raised |-> FALSE]
                   ELSE lastCall
    /\ before' = IF pc = "idle" THEN actual_repos ELSE before

\* lines 242-246 of clone, entered with actual_repos = od: the header and the
\* call of _get_repos(dev=dev); REPO_BASE is taken to exist
BeginClone(od, shallow, dev) ==
    /\ items' \in get_repos(od, MASTER, dev)
    /\ actual_repos' = get_repos_state(od, MASTER)
    /\ args' = [shallow |-> shallow, verbose |-> FALSE]
    /\ printed' = Append(printed, Header("Clone"))
    /\ pc' = "clone"
    /\ idx' = 0

\* clone(shallow, dev) called
StartClone(shallow, dev) ==
    /\ Ready
    /\ BeginClone(actual_repos, shallow, dev)
    /\ Recorded("clone", MASTER, dev)
    /\ UNCHANGED <<requirements, head, broken, frames, calls, threads, parsed>>

\* clone_output without the test of lines 252-253
clone_output_unfiltered(repo, ref) ==
    LET r == git_clone(repo, ref) IN
    IF r.ok
    THEN IF r.out # <<>> THEN r.out ELSE << "Successfully cloned '", repo, "'" >>
    ELSE << "Could not clone repo '", repo, "': " >> \o r.out

\* lines 146-149 and 247-253: what clone reports for the repository
clone_output(repo, ref) ==
    LET r == git_clone(repo, ref)
        output == IF r.ok
                  THEN IF r.out # <<>> THEN r.out
                       ELSE << "Successfully cloned '", repo, "'" >>
                  ELSE << "Could not clone repo '", repo, "': " >> \o r.out
    IN  IF Contains(output, "fatal: destination path")
        THEN << "Repo is already cloned (the folder exists)" >>
        ELSE output

\* one iteration of the loop of clone (lines 246-255)
CloneStep ==
    /\ pc = "clone" /\ idx < Len(items)
    /\ LET repo == items[idx + 1].repo
           ref == items[idx + 1].ref
       IN  /\ printed' = printed
                  \o parse_and_print_output(repo, << "Cloning '", repo, "'" >>)
                  \o parse_and_print_output(repo, clone_output(repo, ref))
           /\ calls' = Append(calls, Call("clone", repo, ref))
           /\ head' = IF git_clone(repo, ref).ok
                      THEN [r \in (DOMAIN head) \cup {repo} |->
                               IF r = repo THEN ref ELSE head[r]]
                      ELSE head
    /\ idx' = idx + 1
    /\ UNCHANGED <<requirements, actual_repos, broken, pc, frames, args, items,
                   threads, lastCall, before, parsed>>

\* status() called
StartStatus ==
    /\ Invoked("call_status")
    /\ items' \in get_repos(actual_repos, MASTER, TRUE)
    /\ actual_repos' = get_repos_state(actual_repos, MASTER)
    /\ printed' = Append(printed, Header("Status"))
    /\ pc' = "status"
    /\ idx' = 0
    /\ Recorded("status", MASTER, TRUE)
    /\ UNCHANGED <<requirements, head, broken, frames, args, calls, threads, parsed>>

\* lines 65-73: the branch, else the tag, else the error of git describe
get_current_branch_or_tag(repo) ==
    IF git_symbolic_ref(repo).ok
    THEN [ok |-> TRUE, out |-> Strip(git_symbolic_ref(repo).out)]
    ELSE [ok |-> git_describe(repo).ok, out |-> Strip(git_describe(repo).out)]

\* lines 158-170: a line of git status -s, unless it is empty
print_status_line(line, repo) ==
    IF line = <<>> THEN <<>> ELSE << print_line(repo, line) >>

RECURSIVE print_status_lines(_, _)
print_status_lines(ls, repo) ==
    IF ls = <<>> THEN <<>>
    ELSE print_status_line(Head(ls), repo) \o print_status_lines(Tail(ls), repo)

\* one iteration of the loop of status (lines 185-193); the error of
\* _get_current_branch_or_tag is caught nowhere and ends the process
StatusStep ==
    /\ pc = "status" /\ idx < Len(items)
    /\ LET repo == items[idx + 1].repo
           cur == get_current_branch_or_tag(repo)
           asked == << Call("symbolic-ref", repo, "") >>
                    \o (IF git_symbolic_ref(repo).ok THEN <<>>
                        ELSE << Call("describe", repo, "") >>)
       IN  IF cur.ok
           THEN /\ printed' = printed \o << print_line(repo, cur.out) >>
                      \o print_status_lines(Split(Strip(git_status(repo)), "\n"), repo)
                /\ calls' = calls \o asked \o << Call("status", repo, "") >>
                /\ idx' = idx + 1
                /\ UNCHANGED <<pc, frames>>
           ELSE /\ calls' = calls \o asked
                /\ pc' = "raised"
                /\ frames' = <<>>
                /\ UNCHANGED <<printed, idx>>
    /\ UNCHANGED <<requirements, actual_repos, head, broken, args, items, threads,
                   lastCall, before, parsed>>

\* checkout(branch) called
StartCheckout(branch) ==
    /\ Ready
    /\ items' \in get_repos(actual_repos, branch, TRUE)
    /\ actual_repos' = get_repos_state(actual_repos, branch)
    /\ printed' = Append(printed, Header("Checkout"))
    /\ pc' = "checkout"
    /\ idx' = 0
    /\ Recorded("checkout", branch, TRUE)
    /\ UNCHANGED <<requirements, head, broken, frames, args, calls, threads, parsed>>

\* checkout_output without the handler of lines 234-235
checkout_output_unhandled(repo, ref) == git_checkout(repo, ref).out

\* lines 232-235: what checkout reports for the repository
checkout_output(repo, ref) ==
    IF git_checkout(repo, ref).ok THEN git_checkout(repo, ref).out
    ELSE << "Could not checkout branch '", ref, "'" >>

\* one iteration of the loop of checkout (lines 230-237)
CheckoutStep ==
    /\ pc = "checkout" /\ idx < Len(items)
    /\ LET repo == items[idx + 1].repo
           ref == items[idx + 1].ref
       IN  /\ printed' = printed
                  \o parse_and_print_output(repo, checkout_output(repo, ref))
           /\ calls' = Append(calls, Call("checkout", repo, ref))
           /\ head' = IF git_checkout(repo, ref).ok
                      THEN [head EXCEPT ![repo] = ref] ELSE head
    /\ idx' = idx + 1
    /\ UNCHANGED <<requirements, actual_repos, broken, pc, frames, args, items,
                   threads, lastCall, before, parsed>>

\* install(verbose) called
StartInstall(verbose) ==
    /\ Invoked("call_install")
    /\ pc = "call_install" => ~verbose
    /\ \E repos \in get_repos(actual_repos, MASTER, TRUE) :
          items' = get_cloudify_packages(repos)
    /\ actual_repos' = get_repos_state(actual_repos, MASTER)
    /\ args' = [shallow |-> args.shallow, verbose |-> verbose]
    /\ printed' = Append(printed, Header("Install"))
    /\ pc' = "install"
    /\ idx' = 0
    /\ Recorded("install", MASTER, TRUE)
    /\ UNCHANGED <<requirements, head, broken, frames, calls, threads, parsed>>

\* lines 173-179: the lines of pip's output that install shows
print_install_line(line, name, verbose) ==
    IF line = <<>> THEN <<>>
    ELSE IF verbose \/ Head(line) = "Successfully installed"
    THEN << print_line(name, line) >>
    ELSE <<>>

RECURSIVE print_install_lines(_, _, _)
print_install_lines(ls, name, verbose) ==
    IF ls = <<>> THEN <<>>
    ELSE print_install_line(Head(ls), name, verbose)
         \o print_install_lines(Tail(ls), name, verbose)

\* lines 216-224: what install prints for the package
install_output(name, path, verbose) ==
    LET r == pip_install(name, path) IN
    IF r.ok THEN print_install_lines(Split(r.out, "\n"), name, verbose)
    ELSE << print_line(name, << "Could not pip install repo: " >> \o r.out) >>

\* one iteration of the loop of install without the try of lines 215-220: the
\* exception of pip leaves install
InstallStepUnhandled ==
    /\ pc = "install" /\ idx < Len(items)
    /\ LET name == items[idx + 1].name
           path == items[idx + 1].path
           ok == pip_install(name, path).ok
       IN  /\ printed' = IF ok THEN printed \o install_output(name, path, args.verbose)
                         ELSE printed
           /\ calls' = Append(calls, Call("pip install", Text(path), ""))
           /\ pc' = IF ok THEN pc ELSE "raised"
           /\ frames' = IF ok THEN frames ELSE <<>>
    /\ idx' = idx + 1
    /\ UNCHANGED <<requirements, actual_repos, head, broken, args, items, threads,
                   lastCall, before, parsed>>

\* one iteration of the loop of install (lines 214-224)
InstallStep ==
    /\ pc = "install" /\ idx < Len(items)
    /\ LET name == items[idx + 1].name
           path == items[idx + 1].path
       IN  /\ printed' = printed \o install_output(name, path, args.verbose)
           /\ calls' = Append(calls, Call("pip install", Text(path), ""))
    /\ idx' = idx + 1
    /\ UNCHANGED <<requirements, actual_repos, head, broken, pc, frames, args,
                   items, threads, lastCall, before, parsed>>

\* setup(branch, requirements) called: lines 260-263, up to the loop of clone
Setup(branch) ==
    /\ pc = "idle" /\ lastCall = NoCall
    /\ lastCall' = [op |-> "setup", branch |-> branch, dev |-> TRUE,
                    raised |-> requirements.given
                               /\ parse_raises(requirements.lines, branch)]
    /\ before' = actual_repos
    /\ IF requirements.given /\ parse_raises(requirements.lines, branch)
       THEN /\ pc' = "raised"
            /\ UNCHANGED <<actual_repos, frames, args, items, idx, printed, parsed>>
       ELSE /\ BeginClone(IF requirements.given
                          THEN parse_requirements(actual_repos, requirements.lines,
                                                  branch)
                          ELSE actual_repos, TRUE, TRUE)
            /\ frames' = << "call_status", "call_install" >>
            /\ parsed' = requirements.given
    /\ UNCHANGED <<requirements, head, broken, calls, threads>>

\* the loop of the running command is exhausted: the command returns, to the
\* next call of setup (lines 264-265) or to the prompt
Return ==
    /\ pc \in {"clone", "status", "checkout", "install", "pull_join"}
    /\ idx = Len(items)
    /\ pc' = IF frames = <<>> THEN "done" ELSE Head(frames)
    /\ frames' = IF frames = <<>> THEN frames ELSE Tail(frames)
    /\ UNCHANGED <<requirements, actual_repos, head, broken, args, items, idx,
                   printed, calls, threads, lastCall, before, parsed>>

\* the branch arguments given to the commands
CmdBranches == {"master", "dev"}

\* repositories that may be broken where the commands run
BrokenProbe == {"cloudify-dsl-parser", "cloudify-cli", "cloudify-manager"}

Init ==
    Start(Files(MaxLines) \cup {NoFile}, {NoClones, SomeCloned, AllCloned},
          SUBSET BrokenProbe)

Next ==
    \/ \E b \in CmdBranches : CallParseRequirements(b)
    \/ \E shallow \in BOOLEAN, dev \in BOOLEAN : StartClone(shallow, dev)
    \/ CloneStep
    \/ StartStatus
    \/ StatusStep
    \/ \E b \in CmdBranches : StartCheckout(b)
    \/ CheckoutStep
    \/ \E verbose \in BOOLEAN : StartInstall(verbose)
    \/ InstallStep
    \/ \E b \in CmdBranches : Setup(b)
    \/ Return

Spec == Init /\ [][Next]_vars

----------------------------------------------------------------------------
(* pull: one thread per repository *)

\* the outcomes of git pull in the clone of repo
git_pull(repo) ==
    IF Usable(repo)
    THEN { [ok |-> TRUE, out |-> << "Already up-to-date.", "\n" >>],
           [ok |-> TRUE, out |-> <<>>],
           [ok |-> TRUE, out |-> << "Updating 1a2b..3c4d", "\n", "Fast-forward", "\n" >>],
           [ok |-> FALSE,
            out |-> ErrorText("git pull",
                       << "There is no tracking information for the current branch." >>)] }
    ELSE { [ok |-> FALSE,
            out |-> ErrorText("git pull",
                       << "fatal: Could not read from remote repository." >>)] }

\* lines 85-88: the text _pull_repo reports for an outcome of git pull
pull_output(r) ==
    IF r.ok THEN r.out ELSE << "No upstream defined. Skipping pull." >>

\* Thread.join() returns when the thread has finished
join_without_waiting(t) == TRUE

joined(t) == t.st = "dead"

\* pull() called: lines 198-200, the Thread objects are built, none runs yet
StartPull ==
    /\ Ready
    /\ \E repos \in get_repos(actual_repos, MASTER, TRUE) :
          /\ Len(repos) <= MaxThreads
          /\ items' = repos
          /\ threads' = [i \in 1..Len(repos) |->
                           [repo |-> repos[i].repo, st |-> "new",
                            out |-> [ok |-> TRUE, out |-> <<>>], left |-> <<>>]]
    /\ actual_repos' = get_repos_state(actual_repos, MASTER)
    /\ printed' = Append(printed, Header("Pull"))
    /\ pc' = "pull_start"
    /\ idx' = 0
    /\ Recorded("pull", MASTER, TRUE)
    /\ UNCHANGED <<requirements, head, broken, frames, args, calls, parsed>>

\* lines 201-203: the next thread is started
PullStartThread ==
    /\ pc = "pull_start" /\ idx < Len(threads)
    /\ threads' = [threads EXCEPT ![idx + 1].st = "started"]
    /\ idx' = idx + 1
    /\ UNCHANGED <<requirements, actual_repos, head, broken, pc, frames, args,
                   items, printed, calls, lastCall, before, parsed>>

\* every thread is started: the loop of line 205 begins
PullStartJoining ==
    /\ pc = "pull_start" /\ idx = Len(threads)
    /\ pc' = "pull_join"
    /\ idx' = 0
    /\ UNCHANGED <<requirements, actual_repos, head, broken, frames, args, items,
                   printed, calls, threads, lastCall, before, parsed>>

\* lines 205-206: the next thread is joined, once it has finished
PullJoin ==
    /\ pc = "pull_join" /\ idx < Len(threads)
    /\ joined(threads[idx + 1])
    /\ idx' = idx + 1
    /\ UNCHANGED <<requirements, actual_repos, head, broken, pc, frames, args,
                   items, printed, calls, threads, lastCall, before, parsed>>

\* _pull_repo in thread i, lines 84-88: git pull has run
ThreadPull(i) ==
    /\ threads[i].st = "started"
    /\ \E r \in git_pull(threads[i].repo) :
          threads' = [threads EXCEPT ![i] =
                        [repo |-> threads[i].repo, st |-> "printing", out |-> r,
                         left |-> parse_and_print_output(threads[i].repo,
                                                         pull_output(r))]]
    /\ calls' = Append(calls, Call("pull", threads[i].repo, ""))
    /\ UNCHANGED <<requirements, actual_repos, head, broken, pc, frames, args,
                   items, idx, printed, lastCall, before, parsed>>

\* _pull_repo in thread i, line 89: the next line is printed
ThreadPrint(i) ==
    /\ threads[i].st = "printing" /\ threads[i].left # <<>>
    /\ printed' = Append(printed, Head(threads[i].left))
    /\ threads' = [threads EXCEPT ![i].left = Tail(threads[i].left)]
    /\ UNCHANGED <<requirements, actual_repos, head, broken, pc, frames, args,
                   items, idx, calls, lastCall, before, parsed>>

\* _pull_repo in thread i has returned
ThreadExit(i) ==
    /\ threads[i].st = "printing" /\ threads[i].left = <<>>
    /\ threads' = [threads EXCEPT ![i].st = "dead"]
    /\ UNCHANGED <<requirements, actual_repos, head, broken, pc, frames, args,
                   items, idx, printed, calls, lastCall, before, parsed>>

InitPull == Start(Files(MaxLines), {AllCloned}, SUBSET {"cloudify-cli"})

NextPull ==
    \/ CallParseRequirements(MASTER)
    \/ StartPull
    \/ PullStartThread
    \/ PullStartJoining
    \/ PullJoin
    \/ \E i \in 1..Len(threads) : ThreadPull(i)
    \/ \E i \in 1..Len(threads) : ThreadPrint(i)
    \/ \E i \in 1..Len(threads) : ThreadExit(i)
    \/ Return

SpecPull == InitPull /\ [][NextPull]_vars

----------------------------------------------------------------------------
(* Claims about the resolution *)

\* the repository a line of the override file names
LineName(line) == Text(Head(Split(Strip(line), "@")))

SourceNames == { LineName(requirements.lines[i]) : i \in 1..Len(requirements.lines) }

\* the last line that names repo gives its ref explicitly, as repo@ref
ExplicitInSource(repo) ==
    \E i \in 1..Len(requirements.lines) :
        /\ LineName(requirements.lines[i]) = repo
        /\ Contains(requirements.lines[i], "@")
        /\ \A j \in (i + 1)..Len(requirements.lines) :
              LineName(requirements.lines[j]) # repo

GotRepos == lastCall.op = "_get_repos"

\* C1: once the override file has been parsed, _get_repos yields exactly the
\* repositories of REPOS that the file names, in the order of REPOS.
C1_YieldIsCatalogueRestrictedToSource ==
    (parsed /\ GotRepos) => Keys(items) = Restrict(REPOS, SourceNames)

\* C2: _get_repos(branch) on a set resolved from the override file leaves every
\* entry unchanged whose ref the file gives explicitly, whatever that ref is.
C2_ExplicitRefNeverChanged ==
    (parsed /\ GotRepos) =>
        \A i \in 1..Len(before) :
            ExplicitInSource(before[i].repo) => actual_repos[i] = before[i]

\* C2, amended: _get_repos(branch) on a set resolved from the override file
\* keeps the keys and their order, leaves every entry unchanged whose ref is
\* not master (so every explicit ref other than master), and changes an entry
\* only from master to the branch.
C2_NonMasterRefNeverChanged ==
    (parsed /\ GotRepos) =>
        /\ Keys(actual_repos) = Keys(before)
        /\ \A i \in 1..Len(before) :
              /\ before[i].ref # MASTER => actual_repos[i] = before[i]
              /\ actual_repos[i] # before[i] =>
                    /\ before[i].ref = MASTER
                    /\ actual_repos[i].ref = lastCall.branch

\* an explicit ref survives a branch switch that moves another entry
C2_Witness ==
    /\ parsed /\ GotRepos /\ lastCall.branch # MASTER
    /\ \E i, j \in 1..Len(before) :
          /\ ExplicitInSource(before[i].repo) /\ before[i].ref = "v2"
          /\ actual_repos[i] = before[i]
          /\ actual_repos[j] # before[j]

\* C8: with no override parsed, _get_repos(branch, dev) yields every entry of
\* CORE_REPOS, and of DEV_REPOS when dev is set, each once and at branch,
\* and nothing else.
C8_NoOverrideYieldsCatalogueAtBranch ==
    (GotRepos /\ ~parsed) =>
        /\ Range(items) =
              { [repo |-> r, ref |-> lastCall.branch] :
                  r \in Range(CORE_REPOS) \cup
                        (IF lastCall.dev THEN Range(DEV_REPOS) ELSE {}) }
        /\ NoDuplicates(Keys(items))
        /\ actual_repos = <<>>

C8_Witness ==
    /\ GotRepos /\ ~parsed /\ ~lastCall.dev /\ lastCall.branch = "dev"
    /\ Len(items) = Len(CORE_REPOS)

----------------------------------------------------------------------------
(* Claims about the sequential commands *)

Printed(rec) == \E i \in 1..Len(printed) : printed[i] = rec

CountCalls(op, repo) ==
    Cardinality({ c \in 1..Len(calls) : calls[c].op = op /\ calls[c].repo = repo })

\* the lines of the output stream tagged with repo, in the order printed
TaggedLines(repo) ==
    LET own == SelectSeq(printed, LAMBDA p : p.tag = repo) IN
    [i \in 1..Len(own) |-> own[i].line]

\* the non-empty lines of a text
NonEmptyLines(text) ==
    LET ls == Split(text, "\n") IN
    SelectSeq([i \in 1..Len(ls) |-> Text(ls[i])], LAMBDA l : l # "")

AlreadyCloned(repo) ==
    [tag |-> repo, line |-> "Repo is already cloned (the folder exists)"]

\* the keys of the set the commands run on
ResolvedKeys ==
    IF actual_repos # <<>> THEN Range(Keys(actual_repos)) ELSE Range(REPOS)

\* C5: a step of clone on a repository whose destination path exists prints,
\* after the announcement, the line 'Repo is already cloned' for it and no
\* 'Could not clone repo' line, and the loop goes on to the next repository.
C5_ExistingPathIsInformational ==
    [][ (pc = "clone" /\ idx < Len(items) /\ idx' = idx + 1
            /\ items[idx + 1].repo \in DOMAIN head) =>
        LET repo == items[idx + 1].repo IN
        /\ printed' = printed
              \o << [tag |-> repo, line |-> "Cloning '" \o repo \o "'"],
                    AlreadyCloned(repo) >>
        /\ head' = head
        /\ pc' = "clone" /\ items' = items ]_vars

\* clone met an existing path and then went on to clone another repository
C5_Witness ==
    /\ pc = "clone" /\ idx >= 2
    /\ Printed(AlreadyCloned(items[1].repo))
    /\ CountCalls("clone", items[2].repo) = 1

CouldNotCheckout(repo, ref) ==
    [tag |-> repo, line |-> "Could not checkout branch '" \o ref \o "'"]

C7_PackagesOfResolvedSet ==
    pc = "install" =>
        /\ { << items[i].name, Text(items[i].path) >> : i \in 1..Len(items) } =
              { << k, k >> : k \in ResolvedKeys \
                    {"cloudify-manager", "cloudify-manager-blueprints",
                     "cloudify-dev"} }
              \cup (IF "cloudify-manager" \in ResolvedKeys
                    THEN { << "cloudify-rest-service",
                              "cloudify-manager/rest-service" >>,
                           << "cloudify-integration-tests",
                              "cloudify-manager/tests" >>,
                           << "cloudify-system-workflows",
                              "cloudify-manager/workflows" >> }
                    ELSE {})
        /\ NoDuplicates([i \in 1..Len(items) |-> items[i].name])

\* the packages of an override that names cloudify-manager and cloudify-dev
C7_Witness ==
    /\ pc = "install"
    /\ Keys(actual_repos) = << "cloudify-manager", "cloudify-dev" >>
    /\ Len(items) = 3

StatusStarted == Printed(Header("Status"))

\* C9: when status is over, every repository of the resolved set has had its
\* status queried, also when the current ref of one of them resolved neither
\* as a branch nor as a tag.
C9_UnresolvedRefDoesNotAbortStatus ==
    (StatusStarted /\ pc # "status") =>
        \A k \in ResolvedKeys : CountCalls("status", k) = 1

\* C10: when setup is over and its override file, if any, was parsed, clone,
\* status and install have been started, in that order.
C10_SetupStartsEverySubStep ==
    (lastCall.op = "setup" /\ ~lastCall.raised /\ pc \in {"done", "raised"}) =>
        \E i, j, k \in 1..Len(printed) :
            /\ i < j /\ j < k
            /\ printed[i] = Header("Clone")
            /\ printed[j] = Header("Status")
            /\ printed[k] = Header("Install")

----------------------------------------------------------------------------
(* Claims about pull *)

PullReturned == lastCall.op = "pull" /\ pc = "done"

\* C3: when pull has returned, every thread it spawned has finished, there is
\* one thread per repository of the resolved set, and git pull has run exactly
\* once for each of them, whether or not a pull failed.
C3_PullJoinsEveryThread ==
    PullReturned =>
        /\ { threads[i].repo : i \in 1..Len(threads) } = ResolvedKeys
        /\ Len(threads) = Cardinality(ResolvedKeys)
        /\ Len(calls) = Len(threads)
        /\ \A i \in 1..Len(threads) :
              /\ threads[i].st = "dead"
              /\ CountCalls("pull", threads[i].repo) = 1

\* pull returned after a thread started later had pulled first and a pull failed
C3_Witness ==
    /\ PullReturned /\ Len(threads) >= 2
    /\ calls[1].repo = threads[2].repo
    /\ ~threads[1].out.ok /\ threads[2].out.ok

\* the repositories that have a report: a line of output under their tag
Reported == { printed[p].tag : p \in { q \in 1..Len(printed) : printed[q].tag # "" } }

\* C4: when pull has returned, N repositories have a report, each repository
\* of the set one under its own name, whatever text its pull ended with.
C4_OneReportPerRepository ==
    PullReturned =>
        /\ Cardinality(Reported) = Len(threads)
        /\ Reported = { threads[i].repo : i \in 1..Len(threads) }

NoTracking == "There is no tracking information for the current branch."

NoUpstreamLine == "No upstream defined. Skipping pull."

\* C11: when pull has returned, a repository whose git pull failed for another
\* reason than a missing upstream does not have the line 'No upstream defined'
\* under its tag, but the lines of the captured error.
C11_OnlyNoUpstreamIsSkipped ==
    PullReturned =>
        \A i \in 1..Len(threads) :
            (~threads[i].out.ok /\ ~Contains(threads[i].out.out, NoTracking)) =>
                /\ \A l \in 1..Len(TaggedLines(threads[i].repo)) :
                      TaggedLines(threads[i].repo)[l] # NoUpstreamLine
                /\ TaggedLines(threads[i].repo) = NonEmptyLines(threads[i].out.out)

----------------------------------------------------------------------------
\* the names are listed in the order of the catalogue
InCatalogueOrder(names) ==
    names = SelectSeq(REPOS, LAMBDA r : r \in Range(names))

\* the catalogue repositories the command op was run on, in the order of the runs
CalledRepos(op) ==
    LET of == SelectSeq(calls, LAMBDA c : c.op = op /\ c.repo \in Range(REPOS))
    IN  [i \in 1..Len(of) |-> of[i].repo]

\* the catalogue repositories that have lines in the report, in the order of
\* their first line
RECURSIVE FirstTags(_)
FirstTags(p) ==
    IF p = <<>> THEN <<>>
    ELSE LET front == FirstTags(SubSeq(p, 1, Len(p) - 1))
             t == p[Len(p)].tag
         IN  IF t \in Range(REPOS) /\ t \notin Range(front)
             THEN Append(front, t) ELSE front

\* C12: clone, status, checkout and install run their command on the
\* repositories in the order of the catalogue and report in that order, with
\* an override file or without one.
C12_SequentialInCatalogueOrder ==
    (lastCall.op \in {"clone", "status", "checkout", "install"}) =>
        /\ \A i \in 1..Len(calls) : InCatalogueOrder(CalledRepos(calls[i].op))
        /\ InCatalogueOrder(FirstTags(printed))

----------------------------------------------------------------------------
\* the keys of a mapping are distinct names of the catalogue
WellKeyed(od) == NoDuplicates(Keys(od)) /\ Range(Keys(od)) \subseteq Range(REPOS)

\* C13: after any sequence of _parse_requirements and _get_repos calls,
\* actual_repos and what _get_repos yielded have no key twice and only keys of
\* REPOS; a name of the override file that is not in REPOS is in neither.
C13_KeysAreDistinctCatalogueNames ==
    /\ WellKeyed(actual_repos)
    /\ GotRepos => WellKeyed(items)
    /\ \A n \in SourceNames \ Range(REPOS) :
          n \notin Range(Keys(actual_repos)) /\ (GotRepos => n \notin Range(Keys(items)))

\* the file names a repository of REPOS and one that is not in REPOS, it has
\* been parsed more than once and _get_repos has yielded the parsed set
C13_Witness ==
    /\ GotRepos /\ parsed
    /\ items # <<>> /\ items = actual_repos
    /\ SourceNames \ Range(REPOS) # {}
    /\ "not-a-repo" \in SourceNames
    /\ before # <<>>

----------------------------------------------------------------------------
InstallStarted == Printed(Header("Install"))

\* the paths pip install was run on, in the order of the runs
PipCalls ==
    LET of == SelectSeq(calls, LAMBDA c : c.op = "pip install")
    IN  [i \in 1..Len(of) |-> of[i].repo]

\* the packages install has gone past: all of them once it has returned
InstallPassed == IF pc = "install" THEN idx ELSE Len(items)

CouldNotInstall(name, path) ==
    print_line(name, << "Could not pip install repo: " >> \o pip_install(name, path).out)

\* C14: install runs pip install once on every package of
\* _get_cloudify_packages, in their order; a package whose pip install raises
\* has the line 'Could not pip install repo' under its name and the packages
\* after it are installed all the same.
C14_InstallAttemptsEveryPackageOnce ==
    InstallStarted =>
        /\ PipCalls = [j \in 1..InstallPassed |-> Text(items[j].path)]
        /\ NoDuplicates(PipCalls)
        /\ \A j \in 1..InstallPassed :
              IF pip_install(items[j].name, items[j].path).ok
              THEN \A l \in 1..Len(printed) :
                      printed[l].tag = items[j].name =>
                          printed[l] # CouldNotInstall(items[j].name, items[j].path)
              ELSE Printed(CouldNotInstall(items[j].name, items[j].path))

\* install has returned: pip install raised on one package and a later package
\* was installed
C14_Witness ==
    /\ InstallStarted /\ pc = "done"
    /\ \E j, k \in 1..Len(items) :
          /\ j < k
          /\ ~pip_install(items[j].name, items[j].path).ok
          /\ pip_install(items[k].name, items[k].path).ok
          /\ Printed(print_line(items[k].name,
                                << "Successfully installed", " ", items[k].name >>))

----------------------------------------------------------------------------
\* C15: when _get_repos is called with a branch other than the branch the
\* override file was just parsed with, every entry whose ref is the branch of
\* the parse (the ref its lines without '@' were given) is moved to the new
\* branch.
C15_DefaultBranchEntriesAreMoved ==
    [][ ( /\ lastCall.op = "_parse_requirements" /\ ~lastCall.raised
          /\ actual_repos # <<>>
          /\ lastCall'.op = "_get_repos"
          /\ lastCall'.branch # lastCall.branch )
        => /\ Keys(actual_repos') = Keys(actual_repos)
           /\ \A i \in 1..Len(actual_repos) :
                 actual_repos[i].ref = lastCall.branch =>
                     actual_repos'[i].ref = lastCall'.branch ]_vars

----------------------------------------------------------------------------
\* C16: once the override file has been parsed, actual_repos and what
\* _get_repos yields hold a repository only if a line of the file names it;
\* for a file with no line, or with only names that are not in REPOS, both
\* are empty.
C16_OnlyNamedRepositories ==
    parsed =>
        /\ Range(Keys(actual_repos)) \subseteq SourceNames
        /\ GotRepos => Range(Keys(items)) \subseteq SourceNames
        /\ (GotRepos /\ SourceNames \cap Range(REPOS) = {}) => items = <<>>

----------------------------------------------------------------------------
\* the sequences that hold the lines of s in another order
Reorderings(s) ==
    { [i \in 1..Len(s) |-> s[f[i]]] :
        f \in { g \in [1..Len(s) -> 1..Len(s)] :
                  \A i, j \in 1..Len(s) : i # j => g[i] # g[j] } }

ParsedNow == lastCall.op = "_parse_requirements" /\ ~lastCall.raised

\* C17: _parse_requirements gives the same actual_repos, keys and refs, for
\* the lines of the override file in any order, also when two lines name the
\* same repository with different refs.
C17_ParseIgnoresLineOrder ==
    ParsedNow =>
        \A q \in Reorderings(requirements.lines) :
            parse_requirements(before, q, lastCall.branch) = actual_repos

----------------------------------------------------------------------------
\* the (repository, ref) pairs git clone was run on
Cloned == { << calls[i].repo, calls[i].ref >> :
              i \in { j \in 1..Len(calls) : calls[j].op = "clone" } }

\* C18: setup(branch) with no override file runs git clone on every
\* repository of REPOS with the ref branch, whatever branch is.
C18_SetupClonesAtBranch ==
    (lastCall.op = "setup" /\ ~requirements.given) =>
        /\ \A c \in Cloned : c[2] = lastCall.branch
        /\ pc # "clone" => Cloned = { << r, lastCall.branch >> : r \in Range(REPOS) }

----------------------------------------------------------------------------
(* Every command, pull included, in one process *)

NextCommand == Next \/ NextPull

InitCommand == Start(Files(MaxLines) \cup {NoFile}, {AllCloned}, SUBSET {"cloudify-cli"})

SpecCommand == InitCommand /\ [][NextCommand]_vars

\* C19: pull, each of its threads, clone, status and install leave
\* actual_repos as it is, keys, refs and order: no step from the call of one
\* of them to its return changes it (the parse that setup does before its
\* clone is not such a step).
C19_CommandsLeaveActualRepos ==
    [][ ( \/ pc \in {"pull_start", "pull_join", "clone", "status", "install",
                     "call_status", "call_install"}
          \/ (pc = "idle" /\ lastCall'.op \in {"pull", "clone", "status", "install"}) )
        => actual_repos' = actual_repos ]_vars

\* pull has returned, after its threads have run, on a set that holds an entry
\* at master and an entry at another ref
C19_Witness ==
    /\ PullReturned
    /\ \E i, j \in 1..Len(actual_repos) :
          actual_repos[i].ref = MASTER /\ actual_repos[j].ref # MASTER
    /\ \A i \in 1..Len(threads) : threads[i].st = "dead"
    /\ Len(threads) = Len(actual_repos)

----------------------------------------------------------------------------
NoEntryAtMaster(od) == \A i \in 1..Len(od) : od[i].ref # MASTER

\* C20: a call of _get_repos with a branch other than master on a non-empty
\* actual_repos leaves no entry at master; on an actual_repos with no entry at
\* master every call of _get_repos, with any branch, changes nothing and yields
\* it as it is, so that a branch applied twice gives what it gives applied once.
C20_BranchApplicationIsFinal ==
    [][ (lastCall'.op = "_get_repos" /\ actual_repos # <<>>) =>
          /\ lastCall'.branch # MASTER => NoEntryAtMaster(actual_repos')
          /\ NoEntryAtMaster(actual_repos) =>
                (actual_repos' = actual_repos /\ items' = actual_repos)
          /\ apply_branch(actual_repos', lastCall'.branch) = actual_repos' ]_vars

\* the file has the line cloudify-manager@master; _get_repos('dev') moved the
\* entry to dev, and a later _get_repos('rel') has left it there
C20_Witness ==
    /\ GotRepos /\ lastCall.branch = "rel"
    /\ ExplicitInSource("cloudify-manager")
    /\ before = actual_repos
    /\ Len(actual_repos) = 2
    /\ \E i \in 1..Len(actual_repos) :
          actual_repos[i].repo = "cloudify-manager" /\ actual_repos[i].ref = "dev"

====
